---------------------------- MODULE Spec2Model ----------------------------
(***************************************************************************)
(* Model of the hestia kernel driver: driver bootstrap (driver_entry,      *)
(* initialize_driver, create_driver, create_device), the unload handler,   *)
(* the callback registry (install_callbacks / uninstall_callbacks) and the *)
(* process-notification callback, run against a model of the framework     *)
(* and kernel primitives they call.                                        *)
(***************************************************************************)
EXTENDS Integers, Sequences, FiniteSets, TLC

VARIABLES
    pc,               \* position of the driver: where the initiating thread is
    loads,            \* number of times the OS loader has called driver_entry
    imageBase,        \* address the driver image is loaded at for this load
    nativeConfig,     \* WDF_DRIVER_CONFIG handed to WdfDriverCreate
    driver,           \* create_driver: `driver` out-handle; initialize_driver: `driver`
    drvRes,           \* initialize_driver: the Result of create_driver
    pwdfdevice_init,  \* create_device: `pwdfdevice_init`
    device,           \* create_device: `device`
    ntstatus,         \* create_device: `ntstatus`
    devStatus,        \* initialize_driver: `status`, what create_device returned
    cbRes,            \* initialize_driver: the Result of install_callbacks
    retStatus,        \* what initialize_driver returned
    entryStatus,      \* what driver_entry returned to the OS loader
    calls,            \* primitives invoked since the last driver_entry, in order
    fwDriver,         \* framework: a driver object exists
    fwDevice,         \* framework: a live control device exists
    initState,        \* framework: state of the init descriptor of this load
    freeCount,        \* framework: WdfDeviceInitFree calls on that descriptor
    regs,             \* kernel: active process-notify registrations
    dbgPrint,         \* last line the notification callback printed
    nOps,             \* registry harness: invocations of install/uninstall so far
    lastOp,           \* registry harness: the last invocation and its result
    inflight,         \* per kernel thread: the callback invocation it is running
    printed,          \* (arguments, line) of the callback invocations that returned
    events,           \* number of process events the kernel has reported
    builder,          \* builder harness: the WDFDriverConfig being built
    setterLog,        \* builder harness: the setter calls made on it, in order
    native,           \* builder harness: the WDF_DRIVER_CONFIG it was converted into
    stIn,             \* status harness: the NtStatus last converted
    stOut,            \* status harness: the Result it was converted into
    mode,             \* engine: RuntimeMode of run_engine
    epc,              \* engine: where run_engine is
    paused,           \* engine: run_engine's `paused`
    reports,          \* engine: the ServiceStatus values reported so far
    chan,             \* engine: controls sent on the channel and not yet received
    connected,        \* engine: the channel's sender is alive
    registered,       \* engine: the service control handler is registered
    lastRecv,         \* engine: what the last rx.recv_timeout returned
    consumed,         \* engine: the controls the main loop received, in order
    handled,          \* engine: the controls given to the handler, with its answers
    current_scan,     \* GUI: HestiaApp.current_scan
    logs,             \* GUI: HestiaApp.logs
    now,              \* GUI: the clock, in milliseconds
    guiCalls,         \* GUI: number of start_scan and tick_scan calls made
    guiOp             \* GUI: the last of these calls

vars == << pc, loads, imageBase, nativeConfig, driver, drvRes, pwdfdevice_init,
           device, ntstatus, devStatus, cbRes, retStatus, entryStatus, calls,
           fwDriver, fwDevice, initState, freeCount, regs, dbgPrint, nOps, lastOp,
           inflight, printed, events, builder, setterLog, native, stIn, stOut,
           mode, epc, paused, reports, chan, connected, registered, lastRecv,
           consumed, handled, current_scan, logs, now, guiCalls, guiOp >>

\* ------------------------------------------------------------------ bounds
MaxLoads == 2
MaxOps == 5
MaxEvents == 2
MaxSetters == 3
MaxControls == 4
MaxClock == 3000
MaxGuiCalls == 4

\* --------------------------------------------------------------- constants
STATUS_SUCCESS == 0
STATUS_INVALID_PARAMETER == -1073741811
NULL == 0
WDF_DRIVER_CONFIG_SIZE == 32

\* Status values the primitives may report: two success codes (zero and a
\* positive one) and two failure codes.
Statuses == {STATUS_SUCCESS, 1, STATUS_INVALID_PARAMETER, -1073741670}
Handles == {NULL, 1}
ImageBases == {1, 2}
Pids == {4, 1000}
Threads == {1, 2}
DeviceAddHandlers == {"None", "evt_driver_device_add"}
UnloadHandlers == {"None", "evt_driver_unload"}
InitFlags == {0, 2}
PoolTags == {0, 7}
StatusInputs == {-2147483647, STATUS_INVALID_PARAMETER, -1, STATUS_SUCCESS, 1, 259, 2147483647}

nt_success(s) == s >= 0

\* Result<T> = core::result::Result<T, NTSTATUS>
Ok(v) == [tag |-> "Ok", val |-> v]
Err(e) == [tag |-> "Err", err |-> e]
\* a local that has not been assigned yet / has been assigned v
None == [tag |-> "none"]
Some(v) == [tag |-> "some", v |-> v]

\* From<NtStatus> for Result<()> testing for STATUS_SUCCESS alone
NtStatus_into_Result_zero_only(value) ==
    IF value = STATUS_SUCCESS THEN Ok("unit") ELSE Err(value)

\* impl From<NtStatus> for Result<()>
NtStatus_into_Result(value) ==
    IF nt_success(value) THEN Ok("unit") ELSE Err(value)

\* ------------------------------------------------- driver configuration
\* WDFDriverConfig::new(): every field at its Default
WDFDriverConfig_new ==
    [evt_driver_device_add |-> "None", evt_driver_unload |-> "None",
     driver_init_flags |-> 0, driver_pool_tag |-> 0]

driver_device_add(self, evt_driver_device_add) ==
    [self EXCEPT !.evt_driver_device_add = evt_driver_device_add]

\* driver_unload storing its handler in the device-add field
driver_unload_wrong_field(self, evt_driver_unload) ==
    [self EXCEPT !.evt_driver_device_add = evt_driver_unload]

driver_unload(self, evt_driver_unload) ==
    [self EXCEPT !.evt_driver_unload = evt_driver_unload]

int_flags(self, driver_init_flags) ==
    [self EXCEPT !.driver_init_flags = driver_init_flags]

pool_tags(self, driver_pool_tag) ==
    [self EXCEPT !.driver_pool_tag = driver_pool_tag]

\* the fields of WDF_DRIVER_CONFIG, in order, with their sizes in bytes on a
\* 64-bit target (ULONG 4, function pointer 8); each is aligned to its size
WDF_DRIVER_CONFIG_FIELDS ==
    << [name |-> "Size", size |-> 4],
       [name |-> "EvtDriverDeviceAdd", size |-> 8],
       [name |-> "EvtDriverUnload", size |-> 8],
       [name |-> "DriverInitFlags", size |-> 4],
       [name |-> "DriverPoolTag", size |-> 4] >>

\* the fields of WDFDriverConfig: the same without Size
WDFDriverConfig_FIELDS == SubSeq(WDF_DRIVER_CONFIG_FIELDS, 2, 5)

AlignUp(n, a) == ((n + a - 1) \div a) * a

RECURSIVE EndOffset(_, _)
\* the offset just past the k-th field of a #[repr(C)] record
EndOffset(fields, k) ==
    IF k = 0 THEN 0
    ELSE AlignUp(EndOffset(fields, k - 1), fields[k].size) + fields[k].size

\* core::mem::size_of of the record with these fields
size_of(fields) ==
    LET align == CHOOSE a \in {fields[i].size : i \in DOMAIN fields} :
                     \A i \in DOMAIN fields : fields[i].size <= a
    IN AlignUp(EndOffset(fields, Len(fields)), align)

\* the conversion stamping the size of the builder type, size_of::<WDFDriverConfig>()
IntoNative_BuilderSize(val) ==
    [Size |-> size_of(WDFDriverConfig_FIELDS),
     EvtDriverDeviceAdd |-> val.evt_driver_device_add,
     EvtDriverUnload |-> val.evt_driver_unload,
     DriverInitFlags |-> val.driver_init_flags,
     DriverPoolTag |-> val.driver_pool_tag]

\* impl From<WDFDriverConfig> for WDF_DRIVER_CONFIG
IntoNative(val) ==
    [Size |-> size_of(WDF_DRIVER_CONFIG_FIELDS),
     EvtDriverDeviceAdd |-> val.evt_driver_device_add,
     EvtDriverUnload |-> val.evt_driver_unload,
     DriverInitFlags |-> val.driver_init_flags,
     DriverPoolTag |-> val.driver_pool_tag]

\* the configuration initialize_driver builds
InitializeDriverConfig == driver_unload(WDFDriverConfig_new, "evt_driver_unload")

\* ------------------------------------------------ framework primitives
\* WdfDriverCreate: the (status, out-handle) pairs the framework may produce.
\* A configuration whose Size is not the record's size is rejected.
WdfDriverCreate(cfg) ==
    IF cfg.Size # WDF_DRIVER_CONFIG_SIZE
    THEN {[status |-> STATUS_INVALID_PARAMETER, handle |-> NULL]}
    ELSE {[status |-> s, handle |-> h] : s \in Statuses, h \in Handles}

\* the address of create_process_callback in the image loaded at `base`
CallbackAt(base) == << base, "create_process_callback" >>

Registered(rs, routine) == \E r \in rs : r.routine = routine

\* PsSetCreateProcessNotifyRoutineEx(routine, remove) on the registrations rs,
\* called during load number `owner`: the (status, registrations) outcomes.
\* The kernel identifies a registration by the routine's address: registering
\* a registered routine and removing an absent one fail.
PsSetCreateProcessNotifyRoutineEx(rs, routine, remove, owner) ==
    IF remove
    THEN IF Registered(rs, routine)
         THEN {[status |-> STATUS_SUCCESS,
                regs |-> {r \in rs : r.routine # routine}]}
         ELSE {[status |-> -1073741702, regs |-> rs]}
    ELSE IF Registered(rs, routine)
         THEN {[status |-> STATUS_INVALID_PARAMETER, regs |-> rs]}
         ELSE {[status |-> s,
                regs |-> IF nt_success(s)
                         THEN rs \cup {[routine |-> routine, owner |-> owner]}
                         ELSE rs] : s \in {STATUS_SUCCESS, -1073741790}}

\* ---------------------------------------------------- callback registry
PsCall(routine, remove, status) ==
    [prim |-> "PsSetCreateProcessNotifyRoutineEx", routine |-> routine,
     remove |-> remove, status |-> status]

\* install_create_process_callback: one call of the primitive with
\* (create_process_callback, FALSE); Err(ntstatus) unless nt_success
install_create_process_callback(rs, base, owner) ==
    { [res |-> IF ~nt_success(o.status) THEN Err(o.status) ELSE Ok("unit"),
       regs |-> o.regs,
       prims |-> << PsCall(CallbackAt(base), FALSE, o.status) >>] :
      o \in PsSetCreateProcessNotifyRoutineEx(rs, CallbackAt(base), FALSE, owner) }

\* uninstall written as a copy of install, the remove flag left FALSE
uninstall_create_process_callback_as_install(rs, base, owner) ==
    install_create_process_callback(rs, base, owner)

\* uninstall_create_process_callback: the same with (create_process_callback, TRUE)
uninstall_create_process_callback(rs, base, owner) ==
    { [res |-> IF ~nt_success(o.status) THEN Err(o.status) ELSE Ok("unit"),
       regs |-> o.regs,
       prims |-> << PsCall(CallbackAt(base), TRUE, o.status) >>] :
      o \in PsSetCreateProcessNotifyRoutineEx(rs, CallbackAt(base), TRUE, owner) }

\* the `?` replaced by a discarded result: `let _ = ...; Ok(())`
Propagate_Swallow(o) == [o EXCEPT !.res = Ok("unit")]

\* the `?` operator: an Err is returned as it is, an Ok goes on to Ok(())
Propagate(o) == IF o.res.tag = "Err" THEN o ELSE [o EXCEPT !.res = Ok("unit")]

install_callbacks(rs, base, owner) ==
    { Propagate(o) : o \in install_create_process_callback(rs, base, owner) }

uninstall_callbacks(rs, base, owner) ==
    { Propagate(o) : o \in uninstall_create_process_callback(rs, base, owner) }

\* ----------------------------------------------------- lifecycle manager
\* create_driver without the test of the handle
create_driver_no_null_check(st, h) ==
    IF ~nt_success(st) THEN Err(st) ELSE Ok(h)

\* create_driver, given what WdfDriverCreate reported and wrote to `driver`
create_driver(st, h) ==
    IF ~nt_success(st) THEN Err(st)
    ELSE IF h = NULL THEN Err(STATUS_INVALID_PARAMETER)
    ELSE Ok(h)

\* initialize_driver without the test of create_device's status
initialize_driver_no_device_check(stage, ok) ==
    CASE stage = "create_driver" -> IF ok THEN "cd_alloc" ELSE "returned"
      [] stage = "create_device" -> "install"
      [] stage = "install_callbacks" -> "returned"

\* initialize_driver installing the callback before it creates the device
initialize_driver_install_first(stage, ok) ==
    CASE stage = "create_driver" -> IF ok THEN "install" ELSE "returned"
      [] stage = "install_callbacks" -> IF ok THEN "cd_alloc" ELSE "returned"
      [] stage = "create_device" -> "returned"

\* initialize_driver: the fail-fast chain. Where it goes when `stage` has
\* returned, succeeding (ok) or not: the next stage, or its own return.
initialize_driver(stage, ok) ==
    CASE stage = "create_driver" -> IF ok THEN "cd_alloc" ELSE "returned"
      [] stage = "create_device" -> IF ok THEN "install" ELSE "returned"
      [] stage = "install_callbacks" -> "returned"

\* initialize_driver reporting every failure as one generic status
ReturnedStatus_Generic(ok, st) ==
    IF ok THEN STATUS_SUCCESS ELSE STATUS_INVALID_PARAMETER

\* initialize_driver: the status it returns when it returns after a stage that
\* succeeded (ok) or failed with st
ReturnedStatus(ok, st) == IF ok THEN STATUS_SUCCESS ELSE st

\* create_device returning without freeing the descriptor
AfterDeviceCreate_NoFree(st) == "cd_return"

\* create_device freeing the descriptor whatever WdfDeviceCreate reported
AfterDeviceCreate_AlwaysFree(st) == "cd_free"

\* create_device: where it goes after WdfDeviceCreate reported st
AfterDeviceCreate(st) == IF ~nt_success(st) THEN "cd_free" ELSE "cd_return"

\* create_device reducing every success code to STATUS_SUCCESS
create_device_result_normalized(st) == IF nt_success(st) THEN STATUS_SUCCESS ELSE st

\* create_device: the status it returns, given the one WdfDeviceCreate
\* reported (`return ntstatus` on the failure branch, `ntstatus` at the end)
create_device_result(st) == st

\* evt_driver_unload: what the unload handler does to the registrations and
\* which primitives it calls (it only prints)
evt_driver_unload(rs, base, owner) == { [regs |-> rs, prims |-> << >>] }

\* create_process_callback consulting the driver's state: events that arrive
\* before the driver has finished loading are reported as ignored
create_process_callback_gated(process_id, create_info) ==
    IF pc # "loaded"
    THEN [pid |-> process_id, event |-> "ignored"]
    ELSE IF create_info # "null"
         THEN [pid |-> process_id, event |-> "creating"]
         ELSE [pid |-> process_id, event |-> "exiting"]

\* create_process_callback with the test of create_info inverted
create_process_callback_inverted(process_id, create_info) ==
    IF create_info = "null"
    THEN [pid |-> process_id, event |-> "creating"]
    ELSE [pid |-> process_id, event |-> "exiting"]

\* create_process_callback: the line printed for (process_id, create_info)
create_process_callback(process_id, create_info) ==
    IF create_info # "null"
    THEN [pid |-> process_id, event |-> "creating"]
    ELSE [pid |-> process_id, event |-> "exiting"]

\* -------------------------------------------------------------- the state
registryVars == << nOps, lastOp >>
localVars == << driver, drvRes, pwdfdevice_init, device, ntstatus, devStatus, cbRes >>
frameworkVars == << fwDriver, fwDevice, initState, freeCount >>
notifyVars == << inflight, printed, events >>
valueVars == << builder, setterLog, native, stIn, stOut >>
engineVars ==
    << mode, epc, paused, reports, chan, connected, registered, lastRecv,
       consumed, handled >>
guiVars == << current_scan, logs, now, guiCalls, guiOp >>

InitExceptLogs ==
    /\ pc = "unloaded"
    /\ loads = 0
    /\ imageBase \in ImageBases
    /\ nativeConfig = None
    /\ driver = NULL
    /\ drvRes = None
    /\ pwdfdevice_init = NULL
    /\ device = NULL
    /\ ntstatus = None
    /\ devStatus = None
    /\ cbRes = None
    /\ retStatus = None
    /\ entryStatus = None
    /\ calls = << >>
    /\ fwDriver = FALSE
    /\ fwDevice = FALSE
    /\ initState = "none"
    /\ freeCount = 0
    /\ regs = {}
    /\ dbgPrint = None
    /\ nOps = 0
    /\ lastOp = None
    /\ inflight = [t \in Threads |-> None]
    /\ printed = {}
    /\ events = 0
    /\ builder = WDFDriverConfig_new
    /\ setterLog = << >>
    /\ native = None
    /\ stIn = STATUS_SUCCESS
    /\ stOut = None
    /\ mode \in {"Service", "Foreground"}
    /\ epc = "start"
    /\ paused = FALSE
    /\ reports = << >>
    /\ chan = << >>
    /\ connected = TRUE
    /\ registered = FALSE
    /\ lastRecv = None
    /\ consumed = << >>
    /\ handled = << >>
    /\ current_scan = None
    /\ now = 0
    /\ guiCalls = 0
    /\ guiOp = None

Init ==
    /\ InitExceptLogs
    /\ logs = << >>

\* The OS loader maps the image and calls driver_entry, which calls
\* initialize_driver; initialize_driver builds its configuration.
DriverEntry ==
    /\ pc = "unloaded"
    /\ loads < MaxLoads
    /\ \E b \in ImageBases : imageBase' = b
    /\ loads' = loads + 1
    /\ pc' = "create_driver"
    /\ calls' = << [prim |-> "configure", config |-> InitializeDriverConfig] >>
    /\ nativeConfig' = None
    /\ driver' = NULL
    /\ drvRes' = None
    /\ pwdfdevice_init' = NULL
    /\ device' = NULL
    /\ ntstatus' = None
    /\ devStatus' = None
    /\ cbRes' = None
    /\ retStatus' = None
    /\ entryStatus' = None
    /\ initState' = "none"
    /\ freeCount' = 0
    /\ UNCHANGED << fwDriver, fwDevice, regs, dbgPrint, registryVars >>
    /\ UNCHANGED notifyVars
    /\ UNCHANGED valueVars
    /\ UNCHANGED engineVars
    /\ UNCHANGED guiVars

\* initialize_driver calls create_driver, which calls WdfDriverCreate once
CreateDriver ==
    /\ pc = "create_driver"
    /\ LET cfg == IntoNative(calls[1].config) IN
       \E o \in WdfDriverCreate(cfg) :
         LET res == create_driver(o.status, o.handle) IN
           /\ nativeConfig' = cfg
           /\ calls' = Append(calls, [prim |-> "WdfDriverCreate",
                                      status |-> o.status, handle |-> o.handle])
           /\ fwDriver' = nt_success(o.status)
           /\ drvRes' = res
           /\ driver' = IF res.tag = "Ok" THEN res.val ELSE NULL
           /\ pc' = initialize_driver("create_driver", res.tag = "Ok")
           /\ retStatus' =
                IF initialize_driver("create_driver", res.tag = "Ok") = "returned"
                THEN Some(ReturnedStatus(res.tag = "Ok",
                                         IF res.tag = "Err" THEN res.err ELSE STATUS_SUCCESS))
                ELSE None
    /\ UNCHANGED << loads, imageBase, pwdfdevice_init, device, ntstatus, devStatus,
                    cbRes, entryStatus, fwDevice, initState, freeCount, regs,
                    dbgPrint, registryVars >>
    /\ UNCHANGED notifyVars
    /\ UNCHANGED valueVars
    /\ UNCHANGED engineVars
    /\ UNCHANGED guiVars

\* create_device: WdfControlDeviceInitAllocate, which yields NULL when it fails
DeviceInitAllocate ==
    /\ pc = "cd_alloc"
    /\ \E p \in Handles :
         /\ pwdfdevice_init' = p
         /\ initState' = IF p # NULL THEN "allocated" ELSE "none"
         /\ calls' = Append(calls, [prim |-> "WdfControlDeviceInitAllocate", ret |-> p])
    /\ pc' = "cd_create"
    /\ UNCHANGED << loads, imageBase, nativeConfig, driver, drvRes, device, ntstatus,
                    devStatus, cbRes, retStatus, entryStatus, fwDriver, fwDevice,
                    freeCount, regs, dbgPrint, registryVars >>
    /\ UNCHANGED notifyVars
    /\ UNCHANGED valueVars
    /\ UNCHANGED engineVars
    /\ UNCHANGED guiVars

\* create_device: WdfDeviceCreate on an allocated descriptor; on success the
\* framework consumes the descriptor and clears the caller's pointer
DeviceCreate ==
    /\ pc = "cd_create"
    /\ pwdfdevice_init # NULL
    /\ \E st \in Statuses :
         /\ ntstatus' = Some(st)
         /\ calls' = Append(calls, [prim |-> "WdfDeviceCreate",
                                    init |-> pwdfdevice_init, status |-> st])
         /\ initState' = IF nt_success(st) THEN "consumed" ELSE initState
         /\ pwdfdevice_init' = IF nt_success(st) THEN NULL ELSE pwdfdevice_init
         /\ device' = IF nt_success(st) THEN 1 ELSE device
         /\ fwDevice' = nt_success(st)
         /\ pc' = AfterDeviceCreate(st)
    /\ UNCHANGED << loads, imageBase, nativeConfig, driver, drvRes, devStatus, cbRes,
                    retStatus, entryStatus, fwDriver, freeCount, regs, dbgPrint,
                    registryVars >>
    /\ UNCHANGED notifyVars
    /\ UNCHANGED valueVars
    /\ UNCHANGED engineVars
    /\ UNCHANGED guiVars

\* create_device: WdfDeviceCreate on the NULL descriptor of a failed allocation
\* (the code does not test it): the system stops, or the call reports anything
DeviceCreateNull ==
    /\ pc = "cd_create"
    /\ pwdfdevice_init = NULL
    /\ \/ /\ pc' = "bugcheck"
          /\ calls' = Append(calls, [prim |-> "WdfDeviceCreate",
                                     init |-> pwdfdevice_init])
          /\ UNCHANGED << ntstatus, device, fwDevice >>
       \/ \E st \in Statuses :
            /\ ntstatus' = Some(st)
            /\ calls' = Append(calls, [prim |-> "WdfDeviceCreate",
                                       init |-> pwdfdevice_init, status |-> st])
            /\ device' = IF nt_success(st) THEN 1 ELSE device
            /\ fwDevice' = nt_success(st)
            /\ pc' = AfterDeviceCreate(st)
    /\ UNCHANGED << loads, imageBase, nativeConfig, driver, drvRes, pwdfdevice_init,
                    devStatus, cbRes, retStatus, entryStatus, fwDriver, initState,
                    freeCount, regs, dbgPrint, registryVars >>
    /\ UNCHANGED notifyVars
    /\ UNCHANGED valueVars
    /\ UNCHANGED engineVars
    /\ UNCHANGED guiVars

\* create_device: WdfDeviceInitFree after a failed WdfDeviceCreate
DeviceInitFree ==
    /\ pc = "cd_free"
    /\ calls' = Append(calls, [prim |-> "WdfDeviceInitFree", init |-> pwdfdevice_init])
    /\ IF pwdfdevice_init # NULL
       THEN /\ freeCount' = freeCount + 1
            /\ initState' = IF initState = "allocated" THEN "freed" ELSE "corrupt"
            /\ pc' = "cd_return"
       ELSE /\ UNCHANGED << freeCount, initState >>
            /\ pc' \in {"cd_return", "bugcheck"}
    /\ UNCHANGED << loads, imageBase, nativeConfig, driver, drvRes, pwdfdevice_init,
                    device, ntstatus, devStatus, cbRes, retStatus, entryStatus,
                    fwDriver, fwDevice, regs, dbgPrint, registryVars >>
    /\ UNCHANGED notifyVars
    /\ UNCHANGED valueVars
    /\ UNCHANGED engineVars
    /\ UNCHANGED guiVars

\* create_device returns ntstatus; initialize_driver tests it
CreateDeviceReturn ==
    /\ pc = "cd_return"
    /\ LET status == create_device_result(ntstatus.v) IN
         /\ devStatus' = Some(status)
         /\ pc' = initialize_driver("create_device", nt_success(status))
         /\ retStatus' =
              IF initialize_driver("create_device", nt_success(status)) = "returned"
              THEN Some(ReturnedStatus(nt_success(status), status))
              ELSE None
    /\ UNCHANGED << loads, imageBase, nativeConfig, driver, drvRes, pwdfdevice_init,
                    device, ntstatus, cbRes, entryStatus, calls, frameworkVars, regs,
                    dbgPrint, registryVars >>
    /\ UNCHANGED notifyVars
    /\ UNCHANGED valueVars
    /\ UNCHANGED engineVars
    /\ UNCHANGED guiVars

\* initialize_driver calls install_callbacks and returns
InstallCallbacks ==
    /\ pc = "install"
    /\ \E o \in install_callbacks(regs, imageBase, loads) :
         /\ regs' = o.regs
         /\ calls' = calls \o o.prims
         /\ cbRes' = o.res
         /\ pc' = initialize_driver("install_callbacks", o.res.tag = "Ok")
         /\ retStatus' =
              IF initialize_driver("install_callbacks", o.res.tag = "Ok") = "returned"
              THEN Some(ReturnedStatus(o.res.tag = "Ok",
                                       IF o.res.tag = "Err" THEN o.res.err ELSE STATUS_SUCCESS))
              ELSE None
    /\ UNCHANGED << loads, imageBase, nativeConfig, driver, drvRes, pwdfdevice_init,
                    device, ntstatus, devStatus, entryStatus, frameworkVars, dbgPrint,
                    registryVars >>
    /\ UNCHANGED notifyVars
    /\ UNCHANGED valueVars
    /\ UNCHANGED engineVars
    /\ UNCHANGED guiVars

\* driver_entry returns what initialize_driver returned. On a non-success
\* status the OS discards the driver without calling the unload handler.
DriverEntryReturn ==
    /\ pc = "returned"
    /\ entryStatus' = retStatus
    /\ IF nt_success(retStatus.v)
       THEN /\ pc' = "loaded"
            /\ UNCHANGED << fwDriver, fwDevice >>
       ELSE /\ pc' = "unloaded"
            /\ fwDriver' = FALSE
            /\ fwDevice' = FALSE
    /\ UNCHANGED << loads, imageBase, nativeConfig, localVars, retStatus, calls,
                    initState, freeCount, regs, dbgPrint, registryVars >>
    /\ UNCHANGED notifyVars
    /\ UNCHANGED valueVars
    /\ UNCHANGED engineVars
    /\ UNCHANGED guiVars

\* The OS removes the loaded driver: the framework calls the unload handler
\* bound in the configuration
EvtDriverUnload ==
    /\ pc = "loaded"
    /\ nativeConfig.EvtDriverUnload = "evt_driver_unload"
    /\ \E o \in evt_driver_unload(regs, imageBase, loads) :
         /\ regs' = o.regs
         /\ calls' = Append(calls, [prim |-> "evt_driver_unload"]) \o o.prims
    /\ pc' = "unloading"
    /\ UNCHANGED << loads, imageBase, nativeConfig, localVars, retStatus, entryStatus,
                    frameworkVars, dbgPrint, registryVars >>
    /\ UNCHANGED notifyVars
    /\ UNCHANGED valueVars
    /\ UNCHANGED engineVars
    /\ UNCHANGED guiVars

\* ... and then releases the driver and device objects and unmaps the image
FrameworkRelease ==
    /\ pc = "unloading"
    /\ pc' = "unloaded"
    /\ fwDriver' = FALSE
    /\ fwDevice' = FALSE
    /\ UNCHANGED << loads, imageBase, nativeConfig, localVars, retStatus, entryStatus,
                    calls, initState, freeCount, regs, dbgPrint, registryVars >>
    /\ UNCHANGED notifyVars
    /\ UNCHANGED valueVars
    /\ UNCHANGED engineVars
    /\ UNCHANGED guiVars

\* the image of the driver is mapped at imageBase
ImageMapped == pc \notin {"unloaded", "bugcheck"}

\* The kernel, on some thread, calls a registered routine that is the loaded
\* image's create_process_callback, for a process event (process_id, create_info)
ProcessNotify ==
    /\ ImageMapped
    /\ events < MaxEvents
    /\ events' = events + 1
    /\ \E r \in regs : r.routine = CallbackAt(imageBase)
    /\ \E t \in Threads, pid \in Pids, info \in {"null", "nonnull"} :
         /\ inflight[t] = None
         /\ inflight' = [inflight EXCEPT
                           ![t] = Some([pid |-> pid, info |-> info, load |-> loads])]
    /\ UNCHANGED << pc, loads, imageBase, nativeConfig, localVars, retStatus,
                    entryStatus, calls, frameworkVars, regs, dbgPrint, printed,
                    registryVars >>
    /\ UNCHANGED valueVars
    /\ UNCHANGED engineVars
    /\ UNCHANGED guiVars

\* create_process_callback, running on a thread, prints its line and returns
CallbackReturn ==
    /\ ImageMapped
    /\ \E t \in Threads :
         /\ inflight[t] # None
         /\ inflight[t].v.load = loads
         /\ LET a == inflight[t].v
                line == create_process_callback(a.pid, a.info) IN
              /\ dbgPrint' = Some(line)
              /\ printed' = printed \cup {[pid |-> a.pid, info |-> a.info, line |-> line]}
         /\ inflight' = [inflight EXCEPT ![t] = None]
    /\ UNCHANGED << pc, loads, imageBase, nativeConfig, localVars, retStatus,
                    entryStatus, calls, frameworkVars, regs, registryVars, events >>
    /\ UNCHANGED valueVars
    /\ UNCHANGED engineVars
    /\ UNCHANGED guiVars

\* A thread is still inside the callback of an image that has been unmapped
\* (nothing waits for it at unload): the system stops
CallbackUnmapped ==
    /\ pc # "bugcheck"
    /\ \E t \in Threads :
         /\ inflight[t] # None
         /\ ~(ImageMapped /\ inflight[t].v.load = loads)
    /\ pc' = "bugcheck"
    /\ UNCHANGED << loads, imageBase, nativeConfig, localVars, retStatus, entryStatus,
                    calls, frameworkVars, regs, dbgPrint, registryVars, notifyVars >>
    /\ UNCHANGED valueVars
    /\ UNCHANGED engineVars
    /\ UNCHANGED guiVars

\* The kernel reports a process event to a registered routine whose code is no
\* longer mapped there: the system stops
StaleNotify ==
    /\ pc # "bugcheck"
    /\ \E r \in regs : ~(ImageMapped /\ r.routine = CallbackAt(imageBase))
    /\ pc' = "bugcheck"
    /\ UNCHANGED << loads, imageBase, nativeConfig, localVars, retStatus, entryStatus,
                    calls, frameworkVars, regs, dbgPrint, registryVars >>
    /\ UNCHANGED notifyVars
    /\ UNCHANGED valueVars
    /\ UNCHANGED engineVars
    /\ UNCHANGED guiVars

Next ==
    \/ DriverEntry
    \/ CreateDriver
    \/ DeviceInitAllocate
    \/ DeviceCreate
    \/ DeviceCreateNull
    \/ DeviceInitFree
    \/ CreateDeviceReturn
    \/ InstallCallbacks
    \/ DriverEntryReturn
    \/ EvtDriverUnload
    \/ FrameworkRelease
    \/ ProcessNotify
    \/ CallbackReturn
    \/ CallbackUnmapped
    \/ StaleNotify

Spec == Init /\ [][Next]_vars

\* ------------------------------------------- the callback registry alone
\* A caller invokes install_callbacks and uninstall_callbacks in any order.
RegistryInstall ==
    /\ nOps < MaxOps
    /\ \E o \in install_callbacks(regs, imageBase, 0) :
         /\ regs' = o.regs
         /\ calls' = calls \o o.prims
         /\ lastOp' = [op |-> "install", res |-> o.res]
    /\ nOps' = nOps + 1
    /\ UNCHANGED << pc, loads, imageBase, nativeConfig, localVars, retStatus,
                    entryStatus, frameworkVars, dbgPrint >>
    /\ UNCHANGED notifyVars
    /\ UNCHANGED valueVars
    /\ UNCHANGED engineVars
    /\ UNCHANGED guiVars

RegistryUninstall ==
    /\ nOps < MaxOps
    /\ \E o \in uninstall_callbacks(regs, imageBase, 0) :
         /\ regs' = o.regs
         /\ calls' = calls \o o.prims
         /\ lastOp' = [op |-> "uninstall", res |-> o.res]
    /\ nOps' = nOps + 1
    /\ UNCHANGED << pc, loads, imageBase, nativeConfig, localVars, retStatus,
                    entryStatus, frameworkVars, dbgPrint >>
    /\ UNCHANGED notifyVars
    /\ UNCHANGED valueVars
    /\ UNCHANGED engineVars
    /\ UNCHANGED guiVars

RegistryNext == RegistryInstall \/ RegistryUninstall

SpecRegistry == Init /\ [][RegistryNext]_vars

\* ------------------------- the configuration builder and the status adapter
driverVars ==
    << pc, loads, imageBase, nativeConfig, localVars, retStatus, entryStatus, calls,
       frameworkVars, regs, dbgPrint, registryVars, notifyVars >>

\* a setter is called on the configuration being built
Building == native = None /\ Len(setterLog) < MaxSetters

SetDeviceAdd ==
    /\ Building
    /\ \E h \in DeviceAddHandlers :
         /\ builder' = driver_device_add(builder, h)
         /\ setterLog' = Append(setterLog, [field |-> "evt_driver_device_add", value |-> h])
    /\ UNCHANGED << native, stIn, stOut, driverVars >>
    /\ UNCHANGED engineVars
    /\ UNCHANGED guiVars

SetUnload ==
    /\ Building
    /\ \E h \in UnloadHandlers :
         /\ builder' = driver_unload(builder, h)
         /\ setterLog' = Append(setterLog, [field |-> "evt_driver_unload", value |-> h])
    /\ UNCHANGED << native, stIn, stOut, driverVars >>
    /\ UNCHANGED engineVars
    /\ UNCHANGED guiVars

SetInitFlags ==
    /\ Building
    /\ \E f \in InitFlags :
         /\ builder' = int_flags(builder, f)
         /\ setterLog' = Append(setterLog, [field |-> "driver_init_flags", value |-> f])
    /\ UNCHANGED << native, stIn, stOut, driverVars >>
    /\ UNCHANGED engineVars
    /\ UNCHANGED guiVars

SetPoolTag ==
    /\ Building
    /\ \E g \in PoolTags :
         /\ builder' = pool_tags(builder, g)
         /\ setterLog' = Append(setterLog, [field |-> "driver_pool_tag", value |-> g])
    /\ UNCHANGED << native, stIn, stOut, driverVars >>
    /\ UNCHANGED engineVars
    /\ UNCHANGED guiVars

\* the configuration is converted, once, into the native record
ConvertConfig ==
    /\ native = None
    /\ native' = Some(IntoNative(builder))
    /\ UNCHANGED << builder, setterLog, stIn, stOut, driverVars >>
    /\ UNCHANGED engineVars
    /\ UNCHANGED guiVars

\* an NtStatus is converted into a Result
ConvertStatus ==
    /\ \E value \in StatusInputs :
         /\ stIn' = value
         /\ stOut' = Some(NtStatus_into_Result(value))
    /\ UNCHANGED << builder, setterLog, native, driverVars >>
    /\ UNCHANGED engineVars
    /\ UNCHANGED guiVars

ValuesNext ==
    \/ SetDeviceAdd
    \/ SetUnload
    \/ SetInitFlags
    \/ SetPoolTag
    \/ ConvertConfig
    \/ ConvertStatus

SpecValues == Init /\ [][ValuesNext]_vars

\* ------------------------------------------------ the engine service host
Controls == {"Interrogate", "Stop", "Shutdown", "Pause", "Continue", "ParamChange"}

\* the ServiceStatus run_engine reports for a state
StatusReport_AlwaysAccepting(state) ==
    [current_state |-> state,
     controls_accepted |-> {"STOP", "SHUTDOWN", "PAUSE_CONTINUE"},
     checkpoint |-> IF state \in {"StartPending", "StopPending"} THEN 1 ELSE 0,
     wait_hint |-> IF state \in {"StartPending", "StopPending"} THEN 10 ELSE 0]

StatusReport(state) ==
    [current_state |-> state,
     controls_accepted |-> IF state \in {"StopPending", "Stopped"}
                           THEN {}
                           ELSE {"STOP", "SHUTDOWN", "PAUSE_CONTINUE"},
     checkpoint |-> IF state \in {"StartPending", "StopPending"} THEN 1 ELSE 0,
     wait_hint |-> IF state \in {"StartPending", "StopPending"} THEN 10 ELSE 0]

\* the handler with Interrogate sent to the main loop as well
control_handler_forwards_interrogate(control_event) ==
    CASE control_event \in {"Interrogate", "Stop", "Shutdown", "Pause", "Continue"} ->
            [result |-> "NoError", send |-> TRUE]
      [] OTHER -> [result |-> "NotImplemented", send |-> FALSE]

\* the control handler closure: its answer, and whether it sends the control
control_handler(control_event) ==
    CASE control_event = "Interrogate" -> [result |-> "NoError", send |-> FALSE]
      [] control_event \in {"Stop", "Shutdown", "Pause", "Continue"} ->
            [result |-> "NoError", send |-> TRUE]
      [] OTHER -> [result |-> "NotImplemented", send |-> FALSE]

\* rx.recv_timeout: the first queued control; when none is queued, a timeout
\* while the sender is alive and a disconnection once it is dropped
recv_timeout(queue, alive) ==
    IF queue # << >> THEN Ok(Head(queue))
    ELSE IF alive THEN Err("Timeout")
    ELSE Err("Disconnected")

\* the loop body with Stop and Shutdown left unhandled while paused
MainLoopStep_StopIgnoredWhilePaused(recv, p) ==
    CASE recv \in {Ok("Stop"), Ok("Shutdown")} ->
            [brk |-> ~p, paused |-> p, report |-> None]
      [] recv = Ok("Pause") ->
            IF ~p THEN [brk |-> FALSE, paused |-> TRUE, report |-> Some("Paused")]
            ELSE [brk |-> FALSE, paused |-> p, report |-> None]
      [] recv = Ok("Continue") ->
            IF p THEN [brk |-> FALSE, paused |-> FALSE, report |-> Some("Running")]
            ELSE [brk |-> FALSE, paused |-> p, report |-> None]
      [] recv = Err("Disconnected") -> [brk |-> TRUE, paused |-> p, report |-> None]
      [] OTHER -> [brk |-> FALSE, paused |-> p, report |-> None]

\* the loop body without the `if !paused` / `if paused` tests
MainLoopStep_Unguarded(recv, p) ==
    CASE recv \in {Ok("Stop"), Ok("Shutdown")} ->
            [brk |-> TRUE, paused |-> p, report |-> None]
      [] recv = Ok("Pause") ->
            [brk |-> FALSE, paused |-> TRUE, report |-> Some("Paused")]
      [] recv = Ok("Continue") ->
            [brk |-> FALSE, paused |-> FALSE, report |-> Some("Running")]
      [] recv = Err("Disconnected") -> [brk |-> TRUE, paused |-> p, report |-> None]
      [] OTHER -> [brk |-> FALSE, paused |-> p, report |-> None]

\* one iteration of run_engine's main loop, `paused` being p: whether it
\* breaks, the new `paused`, and the state it reports, if any
MainLoopStep(recv, p) ==
    CASE recv \in {Ok("Stop"), Ok("Shutdown")} ->
            [brk |-> TRUE, paused |-> p, report |-> None]
      [] recv = Ok("Pause") ->
            IF ~p THEN [brk |-> FALSE, paused |-> TRUE, report |-> Some("Paused")]
            ELSE [brk |-> FALSE, paused |-> p, report |-> None]
      [] recv = Ok("Continue") ->
            IF p THEN [brk |-> FALSE, paused |-> FALSE, report |-> Some("Running")]
            ELSE [brk |-> FALSE, paused |-> p, report |-> None]
      [] recv = Err("Disconnected") -> [brk |-> TRUE, paused |-> p, report |-> None]
      [] OTHER -> [brk |-> FALSE, paused |-> p, report |-> None]

notEngine == << driverVars, valueVars, guiVars >>

\* run_engine has returned (Ok or Err): the receiver is dropped
EngineReturned == epc \in {"done", "error"}

\* set_status(state) followed by `?`: nothing to do without a status handle;
\* with one, the report succeeds and run_engine goes on to `next`, or fails
\* and run_engine returns the error
SetStatus(state, next) ==
    IF mode = "Foreground"
    THEN /\ epc' = next
         /\ UNCHANGED reports
    ELSE \/ /\ reports' = Append(reports, StatusReport(state))
            /\ epc' = next
         \/ /\ epc' = "error"
            /\ UNCHANGED reports

\* run_engine creates the channel, registers the control handler in service
\* mode and initialises tracing; either of the two may fail
EngineStart ==
    /\ epc = "start"
    /\ \/ /\ epc' = "report_start_pending"
          /\ registered' = (mode = "Service")
       \/ /\ mode = "Service"
          /\ epc' = "error"
          /\ registered' = FALSE
       \/ /\ epc' = "error"
          /\ registered' = (mode = "Service")
    /\ UNCHANGED << mode, paused, reports, chan, connected, lastRecv, consumed,
                    handled, notEngine >>

ReportStartPending ==
    /\ epc = "report_start_pending"
    /\ SetStatus("StartPending", "report_running")
    /\ UNCHANGED << mode, paused, chan, connected, registered, lastRecv, consumed,
                    handled, notEngine >>

ReportRunning ==
    /\ epc = "report_running"
    /\ SetStatus("Running", "loop")
    /\ UNCHANGED << mode, paused, chan, connected, registered, lastRecv, consumed,
                    handled, notEngine >>

\* one iteration of the main loop
MainLoop ==
    /\ epc = "loop"
    /\ LET recv == recv_timeout(chan, connected)
           step == MainLoopStep(recv, paused) IN
         /\ lastRecv' = recv
         /\ chan' = IF recv.tag = "Ok" THEN Tail(chan) ELSE chan
         /\ consumed' = IF recv.tag = "Ok" THEN Append(consumed, recv.val) ELSE consumed
         /\ paused' = step.paused
         /\ IF step.report # None
            THEN SetStatus(step.report.v, "loop")
            ELSE /\ epc' = IF step.brk THEN "report_stop_pending" ELSE "loop"
                 /\ UNCHANGED reports
    /\ UNCHANGED << mode, connected, registered, handled, notEngine >>

ReportStopPending ==
    /\ epc = "report_stop_pending"
    /\ SetStatus("StopPending", "report_stopped")
    /\ UNCHANGED << mode, paused, chan, connected, registered, lastRecv, consumed,
                    handled, notEngine >>

ReportStopped ==
    /\ epc = "report_stopped"
    /\ SetStatus("Stopped", "done")
    /\ UNCHANGED << mode, paused, chan, connected, registered, lastRecv, consumed,
                    handled, notEngine >>

\* the service control dispatcher calls the registered handler with a control;
\* a send to a dropped receiver fails and the error is discarded
ControlHandler ==
    /\ registered
    /\ connected
    /\ Len(handled) < MaxControls
    /\ \E c \in Controls :
         LET h == control_handler(c) IN
           /\ handled' = Append(handled, [control |-> c, result |-> h.result])
           /\ chan' = IF h.send /\ ~EngineReturned THEN Append(chan, c) ELSE chan
    /\ UNCHANGED << mode, epc, paused, reports, connected, registered, lastRecv,
                    consumed, notEngine >>

\* the handler closure, which owns the sender, is dropped
HandlerDropped ==
    /\ registered
    /\ connected
    /\ connected' = FALSE
    /\ UNCHANGED << mode, epc, paused, reports, chan, registered, lastRecv,
                    consumed, handled, notEngine >>

EngineNext ==
    \/ EngineStart
    \/ ReportStartPending
    \/ ReportRunning
    \/ MainLoop
    \/ ReportStopPending
    \/ ReportStopped
    \/ ControlHandler
    \/ HandlerDropped

SpecEngine == Init /\ [][EngineNext]_vars

\* ------------------------------------------------------- the GUI's scans
MAX_LINES == 500
HALFWAY_SECS == 1
COMPLETE_SECS == 2

ScanKinds == {"Process", "Disk"}

\* how far the clock moves between two calls
ClockSteps == {500, 1000, 2500}

Duration_from_secs(secs) == secs * 1000

\* the "{secs}.{ms:03}" timestamp of the time t
chrono_like_now(t) == [secs |-> t \div 1000, ms |-> t % 1000]

StartedLine(kind) ==
    IF kind = "Process" THEN "Process scan started" ELSE "Disk scan started"

HalfwayLine(kind) ==
    IF kind = "Process" THEN "Process scan: 50%" ELSE "Disk scan: 50%"

CompletedLine(kind) ==
    IF kind = "Process" THEN "Process scan completed" ELSE "Disk scan completed"

\* log_line: push "[timestamp] msg", then drain from the front what exceeds
\* MAX_LINES
log_line(ls, t, msg) ==
    LET pushed == Append(ls, [timestamp |-> chrono_like_now(t), msg |-> msg]) IN
      IF Len(pushed) > MAX_LINES
      THEN SubSeq(pushed, Len(pushed) - MAX_LINES + 1, Len(pushed))
      ELSE pushed

RECURSIVE log_lines(_, _, _)
log_lines(ls, t, msgs) ==
    IF msgs = << >> THEN ls
    ELSE log_lines(log_line(ls, t, Head(msgs)), t, Tail(msgs))

\* start_scan without the is_some test
start_scan_replacing(app, kind, t) ==
    [current_scan |-> Some([kind |-> kind, start |-> t, halfway_logged |-> FALSE]),
     logs |-> log_line(app.logs, t, StartedLine(kind))]

\* start_scan on the application `app` at time t
start_scan(app, kind, t) ==
    IF app.current_scan # None
    THEN [current_scan |-> app.current_scan,
          logs |-> log_line(app.logs, t, "A scan is already running")]
    ELSE [current_scan |-> Some([kind |-> kind, start |-> t,
                                  halfway_logged |-> FALSE]),
          logs |-> log_line(app.logs, t, StartedLine(kind))]

\* tick_scan that never sets halfway_logged
tick_scan_halfway_not_recorded(app, t) ==
    IF app.current_scan = None THEN app
    ELSE LET state == app.current_scan.v
             elapsed == t - state.start
             half == ~state.halfway_logged /\ elapsed >= Duration_from_secs(HALFWAY_SECS)
             clear_scan == elapsed >= Duration_from_secs(COMPLETE_SECS)
             staged == (IF half THEN << HalfwayLine(state.kind) >> ELSE << >>)
                       \o (IF clear_scan THEN << CompletedLine(state.kind) >> ELSE << >>)
         IN [current_scan |-> IF clear_scan THEN None ELSE Some(state),
             logs |-> log_lines(app.logs, t, staged)]

\* tick_scan on the application `app` at time t
tick_scan(app, t) ==
    IF app.current_scan = None THEN app
    ELSE LET state == app.current_scan.v
             elapsed == t - state.start
             half == ~state.halfway_logged /\ elapsed >= Duration_from_secs(HALFWAY_SECS)
             clear_scan == elapsed >= Duration_from_secs(COMPLETE_SECS)
             staged == (IF half THEN << HalfwayLine(state.kind) >> ELSE << >>)
                       \o (IF clear_scan THEN << CompletedLine(state.kind) >> ELSE << >>)
             stateAfter == [state EXCEPT !.halfway_logged = state.halfway_logged \/ half]
         IN [current_scan |-> IF clear_scan THEN None ELSE Some(stateAfter),
             logs |-> log_lines(app.logs, t, staged)]

HestiaApp == [current_scan |-> current_scan, logs |-> logs]

notGui == << driverVars, valueVars, engineVars >>

\* a log that earlier scans have filled up to MAX_LINES
FullLog ==
    [i \in 1..MAX_LINES |->
       [timestamp |-> chrono_like_now(0),
        msg |-> CASE (i + 1) % 3 = 1 -> StartedLine("Process")
                  [] (i + 1) % 3 = 2 -> HalfwayLine("Process")
                  [] OTHER -> CompletedLine("Process")]]

\* the application with no scan running and a log that is empty or full
InitGui ==
    /\ InitExceptLogs
    /\ logs \in {<< >>, FullLog}

\* a click calls start_scan; the second scan button of a frame is enabled by
\* the `busy` read before the first was clicked, so the call can arrive while
\* a scan is running
StartScan ==
    /\ guiCalls < MaxGuiCalls
    /\ \E kind \in ScanKinds :
         LET app == start_scan(HestiaApp, kind, now) IN
           /\ current_scan' = app.current_scan
           /\ logs' = app.logs
           /\ guiOp' = Some([op |-> "start_scan", kind |-> kind])
    /\ guiCalls' = guiCalls + 1
    /\ UNCHANGED << now, notGui >>

\* update calls tick_scan once per frame
TickScan ==
    /\ guiCalls < MaxGuiCalls
    /\ LET app == tick_scan(HestiaApp, now) IN
         /\ current_scan' = app.current_scan
         /\ logs' = app.logs
    /\ guiOp' = Some([op |-> "tick_scan"])
    /\ guiCalls' = guiCalls + 1
    /\ UNCHANGED << now, notGui >>

\* time passes between two calls
ClockAdvance ==
    /\ \E d \in ClockSteps :
         /\ now + d <= MaxClock
         /\ now' = now + d
    /\ UNCHANGED << current_scan, logs, guiCalls, guiOp, notGui >>

GuiNext == StartScan \/ TickScan \/ ClockAdvance

SpecGui == InitGui /\ [][GuiNext]_vars

\* ------------------------------------------------------------ the claims
PS == "PsSetCreateProcessNotifyRoutineEx"
CallNames == [i \in DOMAIN calls |-> calls[i].prim]
InstallCalls == {i \in DOMAIN calls : calls[i].prim = PS /\ ~calls[i].remove}
UninstallCalls == {i \in DOMAIN calls : calls[i].prim = PS /\ calls[i].remove}
Returned == retStatus.tag = "some"
DeviceFailed == devStatus.tag = "some" /\ ~nt_success(devStatus.v)

\* C1: in every run of initialize_driver the device-creation primitives are
\* invoked only if create_driver returned Ok, and the callback installation
\* only if create_device returned a success status; once a stage has failed
\* no later stage's primitive appears among the calls of that load.
C1_StagesOnlyAfterSuccess ==
    \A i \in DOMAIN calls :
      /\ calls[i].prim \in {"WdfControlDeviceInitAllocate", "WdfDeviceCreate"}
            => drvRes.tag = "Ok"
      /\ i \in InstallCalls
            => /\ drvRes.tag = "Ok"
               /\ devStatus.tag = "some"
               /\ nt_success(devStatus.v)

\* create_device failed and initialize_driver has returned
C1_Witness == Returned /\ DeviceFailed /\ pc = "returned"

\* an init descriptor was allocated by this call of create_device
InitAllocated ==
    \E i \in DOMAIN calls :
      calls[i].prim = "WdfControlDeviceInitAllocate" /\ calls[i].ret # NULL

\* C2: once create_device has returned, the init descriptor it allocated has
\* been consumed by a successful WdfDeviceCreate and never freed, or, when
\* WdfDeviceCreate failed, freed by WdfDeviceInitFree exactly once.
C2_InitFreedExactlyOnce ==
    (devStatus.tag = "some" /\ InitAllocated) =>
        IF nt_success(ntstatus.v)
        THEN initState = "consumed" /\ freeCount = 0
        ELSE initState = "freed" /\ freeCount = 1

C2_Witness ==
    /\ devStatus.tag = "some"
    /\ InitAllocated
    /\ ~nt_success(ntstatus.v)
    /\ initState = "freed"
    /\ freeCount = 1

\* C3: when the unload handler has run after a successful initialize_driver
\* (one whose init descriptor was really allocated), and the framework is
\* about to release the driver and device objects, the callback has been
\* uninstalled: no registration made by this load is active.
C3_UnloadUninstalls ==
    (pc = "unloading" /\ InitAllocated) =>
        /\ UninstallCalls # {}
        /\ \A r \in regs : r.owner # loads

\* C4: whenever initialize_driver has returned a non-success status, no
\* registration made by that load attempt is active.
C4_NoRegistrationOnFailure ==
    (Returned /\ ~nt_success(retStatus.v)) => \A r \in regs : r.owner # loads

\* the installation itself failed and nothing is registered
C4_Witness ==
    /\ Returned
    /\ ~nt_success(retStatus.v)
    /\ cbRes.tag = "Err"
    /\ regs = {}

\* the status of the first stage of initialize_driver that failed, or
\* STATUS_SUCCESS when none did
FirstFailure ==
    IF drvRes.tag = "Err" THEN drvRes.err
    ELSE IF DeviceFailed THEN devStatus.v
    ELSE IF cbRes.tag = "Err" THEN cbRes.err
    ELSE STATUS_SUCCESS

\* C5: initialize_driver returns success only if create_driver, create_device
\* and the callback installation all succeeded, and otherwise exactly the
\* status of the first failing stage; no primitive is called twice in a load;
\* driver_entry returns the same status to the OS loader.
C5_FirstFailureReturned ==
    /\ Returned =>
         /\ retStatus.v = FirstFailure
         /\ nt_success(retStatus.v) =>
              /\ drvRes.tag = "Ok"
              /\ devStatus.tag = "some" /\ nt_success(devStatus.v)
              /\ cbRes.tag = "Ok"
         /\ \A i, j \in DOMAIN calls : calls[i].prim = calls[j].prim => i = j
    /\ entryStatus.tag = "some" => entryStatus = retStatus

\* a failure of WdfDeviceCreate has reached the OS loader
C5_Witness ==
    /\ entryStatus.tag = "some"
    /\ drvRes.tag = "Ok"
    /\ DeviceFailed
    /\ entryStatus.v = devStatus.v
    /\ devStatus.v # STATUS_INVALID_PARAMETER

\* C6: create_driver returns Ok(handle) exactly when WdfDriverCreate reported
\* success and wrote a non-null handle; on success with a null handle it
\* returns Err(STATUS_INVALID_PARAMETER); on failure it returns Err of the
\* primitive's status.
C6_CreateDriverResult ==
    drvRes.tag # "none" =>
        LET c == calls[2] IN
          /\ c.prim = "WdfDriverCreate"
          /\ drvRes.tag = "Ok" <=> (nt_success(c.status) /\ c.handle # NULL)
          /\ drvRes.tag = "Ok" => drvRes.val = c.handle
          /\ (nt_success(c.status) /\ c.handle = NULL)
                => drvRes = Err(STATUS_INVALID_PARAMETER)
          /\ ~nt_success(c.status) => drvRes = Err(c.status)

C6_Witness ==
    /\ drvRes = Err(STATUS_INVALID_PARAMETER)
    /\ nt_success(calls[2].status)
    /\ calls[2].handle = NULL

\* the primitive call recorded in c succeeded
Succeeded(c) ==
    CASE c.prim = "WdfDriverCreate" -> nt_success(c.status) /\ c.handle # NULL
      [] c.prim = "WdfControlDeviceInitAllocate" -> c.ret # NULL
      [] c.prim = "WdfDeviceCreate" -> "status" \in DOMAIN c /\ nt_success(c.status)
      [] c.prim = PS -> nt_success(c.status)
      [] OTHER -> TRUE

SuccessSequence ==
    << "configure", "WdfDriverCreate", "WdfControlDeviceInitAllocate",
       "WdfDeviceCreate", PS >>

\* C7: when every primitive succeeds, initialize_driver returns success and
\* the calls of the load are exactly configure, WdfDriverCreate,
\* WdfControlDeviceInitAllocate, WdfDeviceCreate and the installation, once
\* each and in that order, with no WdfDeviceInitFree and no uninstall.
C7_SuccessSequence ==
    (pc \in {"returned", "loaded"} /\ \A i \in DOMAIN calls : Succeeded(calls[i])) =>
        /\ retStatus = Some(STATUS_SUCCESS)
        /\ CallNames = SuccessSequence
        /\ ~calls[5].remove

C7_Witness ==
    /\ pc = "loaded"
    /\ \A i \in DOMAIN calls : Succeeded(calls[i])
    /\ CallNames = SuccessSequence

\* C8: over any sequence of loads and unloads the callback is installed at
\* most once per load, and only by initialize_driver after create_device;
\* it is uninstalled at most once per unload, and only by the unload handler;
\* at most one registration is active in every reachable state.
C8_AtMostOneRegistration ==
    /\ Cardinality(InstallCalls) <= 1
    /\ Cardinality(UninstallCalls) <= 1
    /\ \A i \in InstallCalls : i > 1 /\ calls[i - 1].prim = "WdfDeviceCreate"
    /\ \A i \in UninstallCalls : i > 1 /\ calls[i - 1].prim = "evt_driver_unload"
    /\ Cardinality(regs) <= 1

\* C9: install and uninstall of the registry call the same primitive with the
\* same callback function; the remove flag is FALSE for install and TRUE for
\* uninstall.
C9_SameCallbackIdentity ==
    nOps > 0 =>
        /\ \A i \in DOMAIN calls :
             calls[i].prim = PS /\ calls[i].routine = CallbackAt(imageBase)
        /\ calls[Len(calls)].remove = (lastOp.op = "uninstall")

\* an install and the uninstall after it, both succeeding
C9_Witness ==
    \E i \in DOMAIN calls :
      /\ i + 1 \in DOMAIN calls
      /\ ~calls[i].remove /\ nt_success(calls[i].status)
      /\ calls[i + 1].remove /\ nt_success(calls[i + 1].status)
      /\ calls[i].routine = calls[i + 1].routine

\* C10: each invocation of install or uninstall calls the primitive exactly
\* once and returns Err of the primitive's status when it reports non-success,
\* Ok only when it reports success.
C10_FailureSurfaced ==
    nOps > 0 =>
        /\ Len(calls) = nOps
        /\ lastOp.res = IF nt_success(calls[Len(calls)].status)
                        THEN Ok("unit")
                        ELSE Err(calls[Len(calls)].status)

\* a second install with no uninstall in between: the primitive's failure is
\* what the registry returns
C10_Witness ==
    /\ Len(calls) >= 2
    /\ ~calls[Len(calls) - 1].remove /\ nt_success(calls[Len(calls) - 1].status)
    /\ ~calls[Len(calls)].remove
    /\ lastOp = [op |-> "install", res |-> Err(STATUS_INVALID_PARAMETER)]

\* the status WdfDeviceCreate reported in this load
DeviceCreateStatus ==
    LET i == CHOOSE i \in DOMAIN calls :
                 calls[i].prim = "WdfDeviceCreate" /\ "status" \in DOMAIN calls[i]
    IN calls[i].status

\* C11: create_device returns exactly the status WdfDeviceCreate reported,
\* whether a failure or a success code (zero or positive).
C11_DeviceStatusUnchanged ==
    devStatus.tag = "some" => devStatus.v = DeviceCreateStatus

\* a positive success code came back as it was
C11_Witness ==
    /\ devStatus.tag = "some"
    /\ InitAllocated
    /\ DeviceCreateStatus = 1
    /\ devStatus.v = 1

\* the driver's own state: everything but the callback invocations
driverState ==
    << loads, imageBase, nativeConfig, localVars, retStatus, entryStatus, calls,
       frameworkVars, regs >>

\* C12: the callback is reentrant. Invocations may overlap each other and the
\* driver's initialization and unload; a step of an invocation (its call, its
\* return) changes nothing of the driver's state, and the line an invocation
\* prints depends only on its own arguments: two invocations with the same
\* arguments print the same line whatever happened in between.
C12_CallbackReentrant ==
    /\ [](\A a, b \in printed :
             (a.pid = b.pid /\ a.info = b.info) => a.line = b.line)
    /\ [][(inflight' # inflight /\ pc' # "bugcheck")
             => (pc' = pc /\ UNCHANGED driverState)]_vars

\* two invocations with the same arguments overlap while the driver is still
\* inside driver_entry
C12_Witness ==
    /\ pc = "returned"
    /\ inflight[1] # None
    /\ inflight[2] # None
    /\ inflight[1].v.pid = inflight[2].v.pid
    /\ inflight[1].v.info = inflight[2].v.info

\* C13: for every process id P, an invocation with a non-null creation-info is
\* classified as a creation event for P and one with a null creation-info as
\* an exit event for P.
C13_Classification ==
    \A a \in printed :
      a.line = [pid |-> a.pid,
                event |-> IF a.info = "nonnull" THEN "creating" ELSE "exiting"]

\* the same process id seen created and seen exiting
C13_Witness ==
    \E a, b \in printed :
      /\ a.pid = b.pid
      /\ a.info = "nonnull" /\ a.line.event = "creating"
      /\ b.info = "null" /\ b.line.event = "exiting"

\* C14: for every configuration built with the builder, whichever setters
\* were called and in whatever order, the native record's Size field is the
\* size of the native record.
C14_SizeStamped ==
    native # None => native.v.Size = WDF_DRIVER_CONFIG_SIZE

\* converted after a chain of three setter calls
C14_Witness ==
    /\ native # None
    /\ Len(setterLog) = 3
    /\ native.v.Size = WDF_DRIVER_CONFIG_SIZE
    /\ native.v.DriverPoolTag # 0

\* the value of the last call of the setter of `field`, or `default`
LastSet(field, default) ==
    LET S == {i \in DOMAIN setterLog : setterLog[i].field = field} IN
      IF S = {} THEN default
      ELSE setterLog[CHOOSE i \in S : \A j \in S : j <= i].value

\* C15: new() has both handlers absent and flags and tag zero; each setter
\* changes its own field only, so every field of the builder, and of the
\* native record made from it, is the value of the last call of its setter or
\* its default. The configuration initialize_driver builds has the unload
\* handler bound and the device-add handler absent.
C15_SettersOwnField ==
    /\ builder = [evt_driver_device_add |-> LastSet("evt_driver_device_add", "None"),
              evt_driver_unload |-> LastSet("evt_driver_unload", "None"),
              driver_init_flags |-> LastSet("driver_init_flags", 0),
              driver_pool_tag |-> LastSet("driver_pool_tag", 0)]
    /\ native # None =>
         /\ native.v.EvtDriverDeviceAdd = builder.evt_driver_device_add
         /\ native.v.EvtDriverUnload = builder.evt_driver_unload
         /\ native.v.DriverInitFlags = builder.driver_init_flags
         /\ native.v.DriverPoolTag = builder.driver_pool_tag
    /\ IntoNative(InitializeDriverConfig).EvtDriverUnload = "evt_driver_unload"
    /\ IntoNative(InitializeDriverConfig).EvtDriverDeviceAdd = "None"

\* the unload setter called twice, and the flags setter, then converted
C15_Witness ==
    /\ native # None
    /\ Len(setterLog) = 3
    /\ setterLog[1] = [field |-> "evt_driver_unload", value |-> "None"]
    /\ setterLog[2].field = "driver_init_flags"
    /\ setterLog[3] = [field |-> "evt_driver_unload", value |-> "evt_driver_unload"]
    /\ native.v.EvtDriverUnload = "evt_driver_unload"
    /\ native.v.EvtDriverDeviceAdd = "None"

\* C16: converting a native status into a Result gives Ok exactly when the
\* status is zero or positive, and otherwise Err carrying the same status.
C16_StatusConversion ==
    stOut # None =>
        /\ stOut.v.tag = "Ok" <=> stIn >= 0
        /\ stIn < 0 => stOut.v = Err(stIn)

\* a positive status is a success
C16_Witness == stOut # None /\ stIn = 259 /\ stOut.v.tag = "Ok"

\* C17: in create_device, WdfDeviceCreate and WdfDeviceInitFree are invoked
\* only with an init descriptor that was allocated, never with the NULL that
\* WdfControlDeviceInitAllocate yields when it fails.
C17_NoNullDescriptor ==
    \A i \in DOMAIN calls :
      calls[i].prim \in {"WdfDeviceCreate", "WdfDeviceInitFree"}
         => calls[i].init # NULL

\* the service states a report may directly follow
Follows(prev, state) ==
    \/ prev = "StartPending" /\ state = "Running"
    \/ prev = "Running" /\ state \in {"Paused", "StopPending"}
    \/ prev = "Paused" /\ state \in {"Running", "StopPending"}
    \/ prev = "StopPending" /\ state = "Stopped"

LastReport == reports[Len(reports)]

\* C18: in service mode the reported service states are StartPending, Running,
\* then strictly alternating Paused / Running, then StopPending, then Stopped;
\* once run_engine has returned Ok, Stopped has been reported exactly once and
\* last; every report before StopPending accepts stop, shutdown and
\* pause/continue, and StopPending and Stopped accept no control.
C18_ReportSequence ==
    mode = "Service" =>
      /\ reports # << >> => reports[1].current_state = "StartPending"
      /\ \A i \in DOMAIN reports :
           /\ i > 1 => Follows(reports[i - 1].current_state, reports[i].current_state)
           /\ reports[i].controls_accepted =
                 IF reports[i].current_state \in {"StopPending", "Stopped"}
                 THEN {}
                 ELSE {"STOP", "SHUTDOWN", "PAUSE_CONTINUE"}
      /\ epc = "done" =>
           /\ reports # << >>
           /\ LastReport.current_state = "Stopped"
           /\ Cardinality({i \in DOMAIN reports :
                             reports[i].current_state = "Stopped"}) = 1

C18_Witness ==
    /\ mode = "Service"
    /\ epc = "done"
    /\ Len(reports) = 6
    /\ reports[3].current_state = "Paused"
    /\ reports[4].current_state = "Running"
    /\ reports[5].current_state = "StopPending"

\* the main loop has exited: it received Stop or Shutdown, or found the
\* channel disconnected
LoopExited == lastRecv \in {Ok("Stop"), Ok("Shutdown"), Err("Disconnected")}

EndsWithStopSequence ==
    /\ Len(reports) >= 2
    /\ reports[Len(reports) - 1].current_state = "StopPending"
    /\ LastReport.current_state = "Stopped"

\* C19 as stated: once the loop has exited in service mode and run_engine has
\* returned, StopPending and then Stopped have been reported.
C19_AlwaysReportsStopped ==
    (mode = "Service" /\ LoopExited /\ EngineReturned) => EndsWithStopSequence

\* C19: once the main loop receives Stop or Shutdown or finds the channel
\* disconnected, paused or not, it is never in the loop again and runs only the
\* two final reports: StopPending has been reported when the Stopped report is
\* due, and StopPending then Stopped when run_engine returns Ok (a report that
\* fails makes it return the error instead); the Stop or Shutdown is the last
\* control the loop ever receives.
C19_StopExitsLoop ==
    /\ LoopExited =>
         /\ epc \in {"report_stop_pending", "report_stopped", "done", "error"}
         /\ (mode = "Service" /\ epc = "report_stopped") =>
               (reports # << >> /\ LastReport.current_state = "StopPending")
         /\ (mode = "Service" /\ epc = "done") => EndsWithStopSequence
    /\ \A i \in DOMAIN consumed :
         consumed[i] \in {"Stop", "Shutdown"} =>
            (i = Len(consumed) /\ lastRecv = Ok(consumed[i]) /\ epc # "loop")
    /\ epc = "loop" => ~LoopExited

C19_Witness ==
    /\ epc = "done"
    /\ paused
    /\ lastRecv = Ok("Shutdown")
    /\ chan # << >>
    /\ EndsWithStopSequence

\* the main loop receives a Pause while paused or a Continue while not paused
RedundantControl ==
    /\ epc = "loop"
    /\ Len(consumed') = Len(consumed) + 1
    /\ \/ consumed'[Len(consumed')] = "Pause" /\ paused
       \/ consumed'[Len(consumed')] = "Continue" /\ ~paused

\* a recv_timeout of the main loop times out
TimeoutTick ==
    /\ epc = "loop"
    /\ chan = << >>
    /\ connected
    /\ lastRecv' = Err("Timeout")
    /\ UNCHANGED << chan, connected, handled >>

\* C20: in the main loop `paused` is true exactly when the last reported
\* service state is Paused; a Pause received while paused and a Continue
\* received while not paused change neither `paused` nor the reports and leave
\* the loop running, and so does a timeout tick.
C20_PauseContinueIdempotent ==
    /\ []((mode = "Service" /\ epc = "loop") =>
            (paused <=> LastReport.current_state = "Paused"))
    /\ [][(RedundantControl \/ TimeoutTick) =>
            (UNCHANGED << paused, reports >> /\ epc' = "loop")]_vars

C20_Witness ==
    /\ mode = "Service"
    /\ epc = "loop"
    /\ paused
    /\ Len(consumed) >= 2
    /\ consumed[Len(consumed)] = "Pause"
    /\ consumed[Len(consumed) - 1] = "Pause"
    /\ Cardinality({i \in DOMAIN reports : reports[i].current_state = "Paused"}) = 1

Forwarded(c) == c \in {"Stop", "Shutdown", "Pause", "Continue"}

HandledControls == [i \in DOMAIN handled |-> handled[i].control]

IsPrefix(a, b) ==
    /\ Len(a) <= Len(b)
    /\ \A i \in DOMAIN a : a[i] = b[i]

\* C21: the controls the main loop has received, followed by those still
\* queued, are the Stop, Shutdown, Pause and Continue controls the handler was
\* given, in the handler's order (all of them while run_engine has not
\* returned); the handler answers NoError to these and to Interrogate and
\* NotImplemented to every other control; a handler call with Interrogate or
\* another control changes nothing of the engine: not the queue, the position,
\* `paused` or the reports.
C21_HandlerForwarding ==
    /\ [](/\ IsPrefix(consumed \o chan, SelectSeq(HandledControls, Forwarded))
          /\ ~EngineReturned =>
                consumed \o chan = SelectSeq(HandledControls, Forwarded)
          /\ \A i \in DOMAIN handled :
                handled[i].result =
                   IF Forwarded(handled[i].control) \/ handled[i].control = "Interrogate"
                   THEN "NoError"
                   ELSE "NotImplemented")
    /\ [][(Len(handled') = Len(handled) + 1
             /\ ~Forwarded(handled'[Len(handled')].control))
            => UNCHANGED << chan, consumed, epc, paused, reports, lastRecv >>]_vars

C21_Witness ==
    /\ epc = "loop"
    /\ HandledControls = << "Interrogate", "Pause", "ParamChange", "Continue" >>
    /\ consumed = << "Pause", "Continue" >>
    /\ ~paused
    /\ Len(reports) = 4

\* the step is a call of start_scan, of tick_scan
IsStartScan ==
    /\ guiCalls' = guiCalls + 1
    /\ guiOp'.v.op = "start_scan"

IsTickScan ==
    /\ guiCalls' = guiCalls + 1
    /\ guiOp'.v.op = "tick_scan"

\* the log after the step is the log before it with one line for msg at the
\* end, less the lines the cap removes at the front
LogGained(msg) ==
    LET shift == Len(logs) + 1 - Len(logs') IN
      /\ Len(logs') = IF Len(logs) < MAX_LINES THEN Len(logs) + 1 ELSE MAX_LINES
      /\ logs'[Len(logs')].msg = msg
      /\ SubSeq(logs', 1, Len(logs') - 1) = SubSeq(logs, 1 + shift, Len(logs))

\* C22: current_scan holds at most one scan; start_scan called while a scan
\* is running leaves that scan's kind, start and halfway flag as they are and
\* adds only the line "A scan is already running" to the log; called with no
\* scan running it makes the requested kind the current scan, started now,
\* with the halfway flag cleared.
C22_SingleScan ==
    /\ [](current_scan # None =>
            /\ current_scan.v.kind \in ScanKinds
            /\ current_scan.v.halfway_logged \in BOOLEAN
            /\ current_scan.v.start <= now)
    /\ [][IsStartScan =>
            IF current_scan # None
            THEN /\ current_scan' = current_scan
                 /\ LogGained("A scan is already running")
            ELSE /\ current_scan' = Some([kind |-> guiOp'.v.kind, start |-> now,
                                          halfway_logged |-> FALSE])
                 /\ LogGained(StartedLine(guiOp'.v.kind))]_vars

C22_Witness ==
    /\ guiOp # None
    /\ guiOp.v.op = "start_scan"
    /\ current_scan # None
    /\ current_scan.v.kind # guiOp.v.kind
    /\ current_scan.v.halfway_logged
    /\ current_scan.v.start < now
    /\ Len(logs) = MAX_LINES
    /\ logs[Len(logs)].msg = "A scan is already running"

IsStartedLine(line) == \E kind \in ScanKinds : line.msg = StartedLine(kind)

IsScanLine(line) == line.msg # "A scan is already running"

\* index of the last "started" line among the first i lines of the log, 0
\* when there is none
RECURSIVE LastStartedUpTo(_)
LastStartedUpTo(i) ==
    IF i = 0 THEN 0
    ELSE IF IsStartedLine(logs[i]) THEN i
    ELSE LastStartedUpTo(i - 1)

LastStarted == LastStartedUpTo(Len(logs))

\* the lines of the last started scan: from its "started" line on
ScanLines ==
    LET first == LastStarted IN
      IF first = 0 THEN << >>
      ELSE SelectSeq(SubSeq(logs, first, Len(logs)), IsScanLine)

ScanMsgs == [i \in DOMAIN ScanLines |-> ScanLines[i].msg]

\* C23: the lines of the last started scan are its "started" line while the
\* scan is running with the halfway flag clear, "started" then "50%" while it
\* is running with the flag set, and "started", "50%", "completed" of one kind
\* once it is cleared; a tick made when the full duration has elapsed logs the
\* completion last and clears the scan, and the scan is cleared by no other
\* step.
C23_ScanLogOrder ==
    /\ [](/\ current_scan # None =>
               ScanMsgs = IF current_scan.v.halfway_logged
                          THEN << StartedLine(current_scan.v.kind),
                                  HalfwayLine(current_scan.v.kind) >>
                          ELSE << StartedLine(current_scan.v.kind) >>
          /\ (current_scan = None /\ LastStarted # 0) =>
               \E kind \in ScanKinds :
                  ScanMsgs = << StartedLine(kind), HalfwayLine(kind),
                                CompletedLine(kind) >>)
    /\ [][(IsTickScan /\ current_scan # None
             /\ now - current_scan.v.start >= Duration_from_secs(COMPLETE_SECS))
            => (/\ current_scan' = None
                /\ logs'[Len(logs')].msg = CompletedLine(current_scan.v.kind))]_vars
    /\ [][(current_scan # None /\ current_scan' # current_scan) =>
            (/\ IsTickScan
             /\ current_scan' = None
                  => logs'[Len(logs')].msg = CompletedLine(current_scan.v.kind))]_vars

C23_Witness ==
    /\ current_scan # None
    /\ current_scan.v.kind = "Disk"
    /\ Len(logs) = 4
    /\ logs[1].msg = "Process scan started"
    /\ logs[2].msg = "Process scan: 50%"
    /\ logs[3].msg = "Process scan completed"
    /\ logs[2].timestamp = logs[3].timestamp
    /\ logs[4].msg = "Disk scan started"

=============================================================================
